---- MODULE Spec2Model ----
(***************************************************************************)
(* Virtual TV Station: the broadcast clock (genesis.json, position         *)
(* calculation) and the FFmpeg supervisor (lazy start, idle watchdog,      *)
(* reaper goroutines) of main.go.                                          *)
(*                                                                         *)
(* main.go holds two variants of the program.  The state machine below is  *)
(* the dual-stream variant (lines 1-511).  The position calculation of the *)
(* single-stream variant (lines 693-707) is modelled as an operator too.   *)
(*                                                                         *)
(* Pause, resume and seek are not part of main.go; README.md and           *)
(* CONTEXT.md describe them.  They are modelled after the design           *)
(* description (Playback Controller) on top of the position calculation,   *)
(* startFFmpeg and stopFFmpeg of main.go.                                  *)
(*                                                                         *)
(* Time is counted in whole seconds, the resolution of time.Now().Unix().  *)
(* Two clocks are kept apart, as Go keeps them apart: `wall` is the wall   *)
(* clock that Unix() reads (it can be stepped back), `mono` is the         *)
(* monotonic reading that time.Since / After / Before compare.             *)
(***************************************************************************)
EXTENDS Integers, Sequences, FiniteSets, TLC

\* ---- program constants -------------------------------------------------
SegmentDurationHLS == 4
SegmentDurationLLHLS == 1
SegmentDuration == 4
IdleTimeout == 30
\* the 60 seconds of getViewerStats and cleanupViewers
ActivityWindow == 60
\* README, Stall Detection: the playlist "stops updating for 30 seconds"
StallWindow == 30

\* ---- bounds of the model -----------------------------------------------
\* last reading of the monotonic clock
MaxTime == 31
\* how far the wall clock may be stepped back in total
MaxSkew == 1
\* how many transcoder processes are launched (or attempted) in a run
MaxLaunches == 2
\* how many times the station process boots
MaxBoots == 2
\* last wall-clock reading in the position-calculation specification
MaxNow == 3800
\* last clock reading in the viewer-registry specification
MaxViewTime == 62
\* last clock reading in the specification of the two locks
MaxLockTime == 62
\* last clock reading in the specification of the position loop
MaxCalcTime == 12
\* last clock reading in the playback-control specification
MaxCtlTime == 2

\* the two stream handlers that createStreamHandler makes (one request in
\* flight on each), named by their streamType; client addresses
Handlers == {"hls", "llhls"}
Clients == {"10.0.0.1"}
\* durations (seconds) of the source video that ffprobe may report
VideoDurations == {3, 5}
PosDurations == {100, 3700}
\* the offsets that a seek request may ask for
SeekTargets == {-1, 3, 4}
\* how far the clock moves between two observed instants
TimeSteps == {IdleTimeout, IdleTimeout + 1}

VARIABLES
    wall,           \* wall clock, seconds (time.Now().Unix())
    mono,           \* monotonic clock, seconds
    video,          \* duration of the source video file
    file,           \* genesis.json: [exists, start_time]
    up,             \* the station process is running
    boots,          \* number of boots so far
    genesis,        \* sm.genesis: [set, StartTime]
    videoDuration,  \* sm.videoDuration
    ffmpegCmd,      \* sm.ffmpegCmd: 0 (nil) or an index into cmds
    isRunning,      \* sm.isRunning
    lastAccess,     \* sm.lastAccess (monotonic reading)
    viewersHLS,     \* sm.viewersHLS: client -> last seen (monotonic)
    viewersLLHLS,   \* sm.viewersLLHLS
    mutex,          \* sm.ffmpegMutex: "" (free) or the handler holding it
    pc,             \* position of each request handler
    ret,            \* what startFFmpeg did for / returned to each handler,
                    \* kept until the handler has acted on it
    cmds,           \* every exec.Cmd built so far, with its arguments
    reapers,        \* the live `go func() { sm.ffmpegCmd.Wait() }()` goroutines
    playlist,       \* stream.m3u8 in the HLS directory: 0 or its writer
    segs,           \* writers of the segment files in the output dirs
    stats,          \* last /api/stats answer
    single,         \* single-stream variant: sm.currentSeek, sm.startNumber
    mtime,          \* modification time of stream.m3u8 (monotonic reading)
    statsSingle,    \* single-stream variant: last /api/stats answer
    epoch,          \* playback state in memory: [paused, pausedOffsetSeconds]
    epochFile,      \* playback state as persisted next to the genesis
    ctl,            \* the last playback-control call and its result
    wd,             \* single-stream variant: where its watchdog goroutine is
    calc            \* a position calculation in progress: its loop variable

vars == <<wall, mono, video, file, up, boots, genesis, videoDuration,
          ffmpegCmd, isRunning, lastAccess, viewersHLS, viewersLLHLS, mutex,
          pc, ret, cmds, reapers, playlist, segs, stats, single, mtime,
          statsSingle, epoch, epochFile, ctl, wd, calc>>

NoGenesis == [set |-> FALSE, StartTime |-> 0]
NoFile == [exists |-> FALSE, start_time |-> 0]
NoStats == [shown |-> FALSE, status |-> "", is_running |-> FALSE,
            current_playing |-> <<0, 0, 0>>, viewers_hls |-> {},
            viewers_llhls |-> {}, viewer_count |-> 0]
NoSingle == [set |-> FALSE, currentSeek |-> 0, startNumber |-> 0, now |-> 0]
NoRet == [path |-> "none", err |-> FALSE]
NoStatsSingle == [shown |-> FALSE, viewer_count |-> 0]
NoCalc == [at |-> "idle", seekTime |-> 0]
NoEpoch == [paused |-> FALSE, pausedOffsetSeconds |-> 0]
NoCtl == [op |-> "none", err |-> "", target |-> 0, offset |-> 0]

\* ---- pure functions ----------------------------------------------------

\* Go's int64(x / y) on floats and x / y on integers: truncation toward 0.
TruncDiv(a, b) == IF a >= 0 THEN a \div b ELSE -((-a) \div b)

\* for seekTime >= sm.videoDuration { seekTime -= sm.videoDuration }
RECURSIVE LoopSub(_, _)
LoopSubOffByOne(seekTime, duration) ==
    IF seekTime > duration THEN LoopSub(seekTime - duration, duration) ELSE seekTime
LoopSub(seekTime, duration) ==
    IF seekTime >= duration THEN LoopSub(seekTime - duration, duration) ELSE seekTime

\* calculateCurrentPosition with the segment numbers taken from the offset
\* in the loop instead of the elapsed time
CalcFromOffset(now, startTime, duration) ==
    LET elapsed == now - startTime
        seekTime == LoopSub(elapsed, duration)
    IN  [seekTime |-> seekTime,
         startNumberHLS |-> TruncDiv(seekTime, SegmentDurationHLS),
         startNumberLLHLS |-> TruncDiv(seekTime, SegmentDurationLLHLS)]

\* calculateCurrentPosition with the segment numbers rounded up
CalcRoundUp(now, startTime, duration) ==
    LET elapsed == now - startTime
        seekTime == LoopSub(elapsed, duration)
    IN  [seekTime |-> seekTime,
         startNumberHLS |->
             TruncDiv(elapsed + SegmentDurationHLS - 1, SegmentDurationHLS),
         startNumberLLHLS |->
             TruncDiv(elapsed + SegmentDurationLLHLS - 1, SegmentDurationLLHLS)]

\* StreamManager.calculateCurrentPosition (dual-stream)
calculateCurrentPosition(now, startTime, duration) ==
    LET elapsed == now - startTime
        seekTime == LoopSub(elapsed, duration)
    IN  [seekTime |-> seekTime,
         startNumberHLS |-> TruncDiv(elapsed, SegmentDurationHLS),
         startNumberLLHLS |-> TruncDiv(elapsed, SegmentDurationLLHLS)]

\* StreamManager.calculateCurrentPosition (single-stream)
calculateCurrentPositionSingle(now, startTime, duration) ==
    LET elapsed == now - startTime
    IN  [seekTime |-> LoopSub(elapsed, duration),
         startNumber |-> TruncDiv(elapsed, SegmentDuration)]

\* StreamManager.getCurrentPlayingTime: the HH:MM:SS triple it prints
getCurrentPlayingTime(now, startTime, duration) ==
    LET elapsed == now - startTime
        seekTime == LoopSub(elapsed, duration)
        hours == TruncDiv(seekTime, 3600)
        minutes == TruncDiv(seekTime - hours * 3600, 60)
        seconds == seekTime - hours * 3600 - minutes * 60
    IN  <<hours, minutes, seconds>>

\* a loadGenesis that does not look for the file
LoadGenesisFresh(f, now) ==
    [genesis |-> [set |-> TRUE, StartTime |-> now],
     file |-> [exists |-> TRUE, start_time |-> now]]

\* StreamManager.loadGenesis: the genesis it ends with and the file it leaves
\* (what json.Marshal wrote, json.Unmarshal reads back: one int64)
loadGenesis(f, now) ==
    IF f.exists
    THEN [genesis |-> [set |-> TRUE, StartTime |-> f.start_time], file |-> f]
    ELSE [genesis |-> [set |-> TRUE, StartTime |-> now],
          file |-> [exists |-> TRUE, start_time |-> now]]

\* the playback state that a boot reads back from the persisted record
loadEpoch(f) == f

\* currentOffset: the frozen offset of a paused epoch, else the position
\* that calculateCurrentPosition gives
currentOffset(now, e, startTime, duration) ==
    IF e.paused
    THEN e.pausedOffsetSeconds
    ELSE calculateCurrentPosition(now, startTime, duration).seekTime

\* ---- the state before the first boot -------------------------------------

NoViewers == [c \in {} |-> 0]
\* reapers[0]: goroutines started that have not read sm.ffmpegCmd yet;
\* reapers[p]: goroutines inside the Wait of cmds[p]
NoReapers == [p \in 0..MaxLaunches |-> 0]
Idle == [h \in Handlers |-> "idle"]
NoRets == [h \in Handlers |-> NoRet]

Init ==
    /\ wall = MaxSkew
    /\ mono = 0
    /\ video \in VideoDurations
    /\ file = NoFile
    /\ up = FALSE
    /\ boots = 0
    /\ genesis = NoGenesis
    /\ videoDuration = 0
    /\ ffmpegCmd = 0
    /\ isRunning = FALSE
    /\ lastAccess = 0
    /\ viewersHLS = NoViewers
    /\ viewersLLHLS = NoViewers
    /\ mutex = ""
    /\ pc = Idle
    /\ ret = NoRets
    /\ cmds = <<>>
    /\ reapers = NoReapers
    /\ playlist = 0
    /\ segs = {}
    /\ stats = NoStats
    /\ single = NoSingle
    /\ mtime = 0
    /\ statsSingle = NoStatsSingle
    /\ epoch = NoEpoch
    /\ epochFile = NoEpoch
    /\ ctl = NoCtl
    /\ wd = "sleep"
    /\ calc = NoCalc

\* ---- environment: clocks, the transcoder processes -----------------------

\* d seconds pass
Tick(d) ==
    /\ mono + d <= MaxTime
    /\ mono' = mono + d
    /\ wall' = wall + d
    /\ UNCHANGED <<video, file, up, boots, genesis, videoDuration, ffmpegCmd,
                   isRunning, lastAccess, viewersHLS, viewersLLHLS, mutex, pc,
                   ret, cmds, reapers, playlist, segs, stats, single, mtime,
                   statsSingle, epoch, epochFile, ctl, wd, calc>>

\* the wall clock is set back one second (NTP step, operator); the
\* monotonic clock is not affected
ClockStepBack ==
    /\ mono + MaxSkew - wall < MaxSkew
    /\ wall' = wall - 1
    /\ UNCHANGED <<mono, video, file, up, boots, genesis, videoDuration,
                   ffmpegCmd, isRunning, lastAccess, viewersHLS, viewersLLHLS,
                   mutex, pc, ret, cmds, reapers, playlist, segs, stats,
                   single, mtime, statsSingle, epoch, epochFile, ctl, wd,
                   calc>>

\* os.Process.Kill on process p of the table c: a started, live process
\* dies, one that hangs included
Kill(c, p) ==
    IF p # 0 /\ c[p].state \in {"running", "hung"}
    THEN [c EXCEPT ![p].state = "exited"] ELSE c

\* Process.Signal(syscall.SIGTERM) on process p of the table c: a running
\* ffmpeg ends; one that hangs does not act on the signal
Term(c, p) ==
    IF p # 0 /\ c[p].state = "running" THEN [c EXCEPT ![p].state = "exited"] ELSE c

\* a running ffmpeg writes its playlist and segment files
ProcWrite(p) ==
    /\ p \in DOMAIN cmds
    /\ cmds[p].state = "running"
    /\ playlist' = p
    /\ mtime' = mono
    /\ segs' = segs \cup {p}
    /\ UNCHANGED <<wall, mono, video, file, up, boots, genesis, videoDuration,
                   ffmpegCmd, isRunning, lastAccess, viewersHLS, viewersLLHLS,
                   mutex, pc, ret, cmds, reapers, stats, single, statsSingle,
                   epoch, epochFile, ctl, wd, calc>>

\* a running ffmpeg exits by itself (end of input: the dual-stream command
\* line has no -stream_loop; or an encoder error)
ProcExit(p) ==
    /\ p \in DOMAIN cmds
    /\ cmds[p].state = "running"
    /\ cmds' = [cmds EXCEPT ![p].state = "exited"]
    /\ UNCHANGED <<wall, mono, video, file, up, boots, genesis, videoDuration,
                   ffmpegCmd, isRunning, lastAccess, viewersHLS, viewersLLHLS,
                   mutex, pc, ret, reapers, playlist, segs, stats, single,
                   mtime, statsSingle, epoch, epochFile, ctl, wd, calc>>

\* ---- main --------------------------------------------------------------

\* main(), up to the servers listening: a fresh StreamManager, loadGenesis,
\* getVideoDuration
Boot ==
    /\ ~up
    /\ boots < MaxBoots
    /\ up' = TRUE
    /\ boots' = boots + 1
    /\ lastAccess' = mono
    /\ LET g == loadGenesis(file, wall)
       IN  /\ genesis' = g.genesis
           /\ file' = g.file
    /\ videoDuration' = video
    /\ epoch' = loadEpoch(epochFile)
    /\ UNCHANGED <<wall, mono, video, ffmpegCmd, isRunning, viewersHLS,
                   viewersLLHLS, mutex, pc, ret, cmds, reapers, playlist, segs,
                   stats, single, mtime, statsSingle, epochFile, ctl, wd,
                   calc>>

\* the memory and the goroutines of a process that has ended
MemoryGone ==
    /\ up' = FALSE
    /\ genesis' = NoGenesis
    /\ videoDuration' = 0
    /\ ffmpegCmd' = 0
    /\ isRunning' = FALSE
    /\ lastAccess' = 0
    /\ viewersHLS' = NoViewers
    /\ viewersLLHLS' = NoViewers
    /\ mutex' = ""
    /\ pc' = Idle
    /\ ret' = NoRets
    /\ reapers' = NoReapers
    /\ epoch' = NoEpoch
    /\ ctl' = NoCtl
    /\ wd' = "sleep"

\* main() on SIGINT / SIGTERM: stopFFmpeg, then the process ends
Shutdown ==
    /\ up
    /\ mutex = ""
    /\ cmds' = Kill(cmds, ffmpegCmd)
    /\ MemoryGone
    /\ UNCHANGED <<wall, mono, video, file, boots, playlist, segs, stats,
                   single, mtime, statsSingle, epochFile, calc>>

\* the process dies at any point (log.Fatalf, panic, SIGKILL).  It is the
\* container's first process (Dockerfile CMD): the container stops and its
\* ffmpeg child ends with it.
Crash ==
    /\ up
    /\ cmds' = Kill(cmds, ffmpegCmd)
    /\ MemoryGone
    /\ UNCHANGED <<wall, mono, video, file, boots, playlist, segs, stats,
                   single, mtime, statsSingle, epochFile, calc>>

\* ---- request handlers (createStreamHandler) ------------------------------

\* StreamManager.trackViewer: upsert ip -> now in a viewer map
trackViewer(v, ip, now) ==
    [c \in DOMAIN v \cup {ip} |-> IF c = ip THEN now ELSE v[c]]

\* A request for a stream file arrives at handler h: trackViewer, then the
\* unlocked read `if !streamManager.isRunning`.  trackViewer touches the
\* viewer maps only, under their own mutex, so the two are taken as one step.
\* With playback control the lazy start is for an unpaused station only.
Request(h) ==
    /\ up
    /\ pc[h] = "idle"
    /\ \E ip \in Clients :
          /\ viewersHLS' = IF h = "hls"
                           THEN trackViewer(viewersHLS, ip, mono) ELSE viewersHLS
          /\ viewersLLHLS' = IF h = "llhls"
                             THEN trackViewer(viewersLLHLS, ip, mono) ELSE viewersLLHLS
    /\ pc' = [pc EXCEPT ![h] = IF ~isRunning /\ ~epoch.paused
                                THEN "start" ELSE "update"]
    /\ UNCHANGED <<wall, mono, video, file, up, boots, genesis, videoDuration,
                   ffmpegCmd, isRunning, lastAccess, mutex, ret, cmds, reapers,
                   playlist, segs, stats, single, mtime, statsSingle, epoch,
                   epochFile, ctl, wd, calc>>

\* the exec.Cmd that startFFmpeg builds at instant now under a genesis of
\* startTime
CmdAt(ok, now, startTime, duration) ==
    LET p == calculateCurrentPosition(now, startTime, duration)
    IN  [state |-> IF ok THEN "running" ELSE "notstarted",
         seekTime |-> p.seekTime,
         startNumberHLS |-> p.startNumberHLS,
         startNumberLLHLS |-> p.startNumberLLHLS,
         now |-> now,
         startTime |-> startTime,
         duration |-> duration]

\* the exec.Cmd that startFFmpeg builds from the calculated position
NewCmd(ok) == CmdAt(ok, wall, genesis.StartTime, videoDuration)

\* a startFFmpeg that relies on what the handler saw before the lock
StartWithoutRecheck(h) ==
    /\ pc[h] = "start"
    /\ mutex = ""
    /\ isRunning
    /\ Len(cmds) < MaxLaunches
    /\ segs' = {}
    /\ cmds' = Append(cmds, NewCmd(TRUE))
    /\ ffmpegCmd' = Len(cmds) + 1
    /\ reapers' = [reapers EXCEPT ![0] = @ + 1]
    /\ lastAccess' = mono
    /\ mutex' = h
    /\ pc' = [pc EXCEPT ![h] = "wait"]
    /\ UNCHANGED <<wall, mono, video, file, up, boots, genesis, videoDuration,
                   isRunning, viewersHLS, viewersLLHLS, ret, playlist, stats,
                   single, mtime, statsSingle, epoch, epochFile, ctl, wd,
                   calc>>

\* startFFmpeg, entered with the lock, finds the transcoder running
StartAlreadyRunning(h) ==
    /\ pc[h] = "start"
    /\ mutex = ""
    /\ isRunning
    /\ ret' = [ret EXCEPT ![h] = [path |-> "already", err |-> FALSE]]
    /\ pc' = [pc EXCEPT ![h] = "update"]
    /\ UNCHANGED <<wall, mono, video, file, up, boots, genesis, videoDuration,
                   ffmpegCmd, isRunning, lastAccess, viewersHLS, viewersLLHLS,
                   mutex, cmds, reapers, playlist, segs, stats, single, mtime,
                   statsSingle, epoch, epochFile, ctl, wd, calc>>

\* startFFmpeg with isRunning set before cmd.Start() is known to have worked
StartSetsRunningFirst(h) ==
    /\ pc[h] = "start"
    /\ mutex = ""
    /\ ~isRunning
    /\ Len(cmds) < MaxLaunches
    /\ segs' = {}
    /\ cmds' = Append(cmds, NewCmd(FALSE))
    /\ ffmpegCmd' = Len(cmds) + 1
    /\ reapers' = [reapers EXCEPT ![0] = @ + 1]
    /\ isRunning' = TRUE
    /\ ret' = [ret EXCEPT ![h] = [path |-> "launchfail", err |-> TRUE]]
    /\ pc' = [pc EXCEPT ![h] = "failed"]
    /\ UNCHANGED <<wall, mono, video, file, up, boots, genesis, videoDuration,
                   lastAccess, viewersHLS, viewersLLHLS, mutex, playlist,
                   stats, single, mtime, statsSingle, epoch, epochFile, ctl,
                   wd, calc>>

\* startFFmpeg: old segments removed, cmd.Start() fails (the reaper
\* goroutine is started all the same); the error goes back to the handler
StartLaunchFails(h) ==
    /\ pc[h] = "start"
    /\ mutex = ""
    /\ ~isRunning
    /\ Len(cmds) < MaxLaunches
    /\ segs' = {}
    /\ cmds' = Append(cmds, NewCmd(FALSE))
    /\ ffmpegCmd' = Len(cmds) + 1
    /\ reapers' = [reapers EXCEPT ![0] = @ + 1]
    /\ ret' = [ret EXCEPT ![h] = [path |-> "launchfail", err |-> TRUE]]
    /\ pc' = [pc EXCEPT ![h] = "failed"]
    /\ UNCHANGED <<wall, mono, video, file, up, boots, genesis, videoDuration,
                   isRunning, lastAccess, viewersHLS, viewersLLHLS, mutex,
                   playlist, stats, single, mtime, statsSingle, epoch,
                   epochFile, ctl, wd, calc>>

\* a startFFmpeg that records the viewer itself, inside the lock
StartRecordsViewer(h) ==
    /\ pc[h] = "start"
    /\ mutex = ""
    /\ ~isRunning
    /\ Len(cmds) < MaxLaunches
    /\ segs' = {}
    /\ cmds' = Append(cmds, NewCmd(TRUE))
    /\ ffmpegCmd' = Len(cmds) + 1
    /\ reapers' = [reapers EXCEPT ![0] = @ + 1]
    /\ isRunning' = TRUE
    /\ lastAccess' = mono
    /\ mutex' = h
    /\ pc' = [pc EXCEPT ![h] = "wait"]
    /\ \E ip \in Clients :
          /\ viewersHLS' = IF h = "hls"
                           THEN trackViewer(viewersHLS, ip, mono) ELSE viewersHLS
          /\ viewersLLHLS' = IF h = "llhls"
                             THEN trackViewer(viewersLLHLS, ip, mono) ELSE viewersLLHLS
    /\ UNCHANGED <<wall, mono, video, file, up, boots, genesis, videoDuration,
                   ret, playlist, stats, single, mtime, statsSingle, epoch,
                   epochFile, ctl, wd, calc>>

\* a startFFmpeg that leaves the output directories as they are
StartKeepsSegments(h) ==
    /\ pc[h] = "start"
    /\ mutex = ""
    /\ ~isRunning
    /\ Len(cmds) < MaxLaunches
    /\ cmds' = Append(cmds, NewCmd(TRUE))
    /\ ffmpegCmd' = Len(cmds) + 1
    /\ reapers' = [reapers EXCEPT ![0] = @ + 1]
    /\ isRunning' = TRUE
    /\ lastAccess' = mono
    /\ mutex' = h
    /\ pc' = [pc EXCEPT ![h] = "wait"]
    /\ UNCHANGED <<wall, mono, video, file, up, boots, genesis, videoDuration,
                   viewersHLS, viewersLLHLS, ret, playlist, segs, stats,
                   single, mtime, statsSingle, epoch, epochFile, ctl, wd,
                   calc>>

\* a startFFmpeg that lets the broadcast begin anew at every launch
StartRebasesGenesis(h) ==
    /\ pc[h] = "start"
    /\ mutex = ""
    /\ ~isRunning
    /\ Len(cmds) < MaxLaunches
    /\ segs' = {}
    /\ genesis' = [genesis EXCEPT !.StartTime = wall]
    /\ cmds' = Append(cmds, CmdAt(TRUE, wall, wall, videoDuration))
    /\ ffmpegCmd' = Len(cmds) + 1
    /\ reapers' = [reapers EXCEPT ![0] = @ + 1]
    /\ isRunning' = TRUE
    /\ lastAccess' = mono
    /\ mutex' = h
    /\ pc' = [pc EXCEPT ![h] = "wait"]
    /\ UNCHANGED <<wall, mono, video, file, up, boots, videoDuration,
                   viewersHLS, viewersLLHLS, ret, playlist, stats, single,
                   mtime, statsSingle, epoch, epochFile, ctl, wd, calc>>

\* startFFmpeg: old segments removed, cmd.Start() succeeds; isRunning and
\* lastAccess are set and the wait for the playlist begins, the lock held
StartLaunches(h) ==
    /\ pc[h] = "start"
    /\ mutex = ""
    /\ ~isRunning
    /\ Len(cmds) < MaxLaunches
    /\ segs' = {}
    /\ cmds' = Append(cmds, NewCmd(TRUE))
    /\ ffmpegCmd' = Len(cmds) + 1
    /\ reapers' = [reapers EXCEPT ![0] = @ + 1]
    /\ isRunning' = TRUE
    /\ lastAccess' = mono
    /\ mutex' = h
    /\ pc' = [pc EXCEPT ![h] = "wait"]
    /\ UNCHANGED <<wall, mono, video, file, up, boots, genesis, videoDuration,
                   viewersHLS, viewersLLHLS, ret, playlist, stats, single,
                   mtime, statsSingle, epoch, epochFile, ctl, wd, calc>>

\* startFFmpeg: the loop that polls for stream.m3u8 ends, because the file
\* is there or because the 20 polls are used up; startFFmpeg returns nil
\* either way and the lock is released
PlaylistWait(h) ==
    /\ pc[h] = "wait"
    /\ ret' = [ret EXCEPT ![h] =
                 [path |-> IF playlist # 0 THEN "found" ELSE "timeout",
                  err |-> FALSE]]
    /\ mutex' = ""
    /\ pc' = [pc EXCEPT ![h] = "update"]
    /\ UNCHANGED <<wall, mono, video, file, up, boots, genesis, videoDuration,
                   ffmpegCmd, isRunning, lastAccess, viewersHLS, viewersLLHLS,
                   cmds, reapers, playlist, segs, stats, single, mtime,
                   statsSingle, epoch, epochFile, ctl, wd, calc>>

\* the handler logs the error of startFFmpeg, answers 500 and returns
RespondError(h) ==
    /\ pc[h] = "failed"
    /\ ret' = [ret EXCEPT ![h] = NoRet]
    /\ pc' = [pc EXCEPT ![h] = "idle"]
    /\ UNCHANGED <<wall, mono, video, file, up, boots, genesis, videoDuration,
                   ffmpegCmd, isRunning, lastAccess, viewersHLS, viewersLLHLS,
                   mutex, cmds, reapers, playlist, segs, stats, single, mtime,
                   statsSingle, epoch, epochFile, ctl, wd, calc>>

\* updateLastAccess, then the file is served (serving changes no state)
UpdateLastAccess(h) ==
    /\ pc[h] = "update"
    /\ mutex = ""
    /\ lastAccess' = mono
    /\ ret' = [ret EXCEPT ![h] = NoRet]
    /\ pc' = [pc EXCEPT ![h] = "idle"]
    /\ UNCHANGED <<wall, mono, video, file, up, boots, genesis, videoDuration,
                   ffmpegCmd, isRunning, viewersHLS, viewersLLHLS, mutex, cmds,
                   reapers, playlist, segs, stats, single, mtime, statsSingle,
                   epoch, epochFile, ctl, wd, calc>>

\* ---- playback control: pause, resume, seek ---------------------------------
\* Each call runs as one step, serialized with startFFmpeg, stopFFmpeg and
\* the watchdog (it needs the lock free).  A call stops the transcoder the
\* way stopFFmpeg does and starts it the way startFFmpeg does, the wait for
\* the playlist left out.

\* what a call leaves in ctl: the call, its error, and the offset on air
\* when it arrived
Called(op, err, target) ==
    [op |-> op, err |-> err, target |-> target,
     offset |-> currentOffset(wall, epoch, genesis.StartTime, videoDuration)]

\* startFFmpeg from a stopped transcoder at a genesis of startTime
CtlStart(ok, startTime) ==
    /\ Len(cmds) < MaxLaunches
    /\ segs' = {}
    /\ cmds' = Append(Kill(cmds, ffmpegCmd),
                      CmdAt(ok, wall, startTime, videoDuration))
    /\ ffmpegCmd' = Len(cmds) + 1
    /\ reapers' = [reapers EXCEPT ![0] = @ + 1]
    /\ isRunning' = ok
    /\ lastAccess' = IF ok THEN mono ELSE lastAccess

\* a pause that keeps the new state in memory only
PauseInMemoryOnly ==
    /\ up
    /\ mutex = ""
    /\ ctl' = Called("pause", "", 0)
    /\ IF epoch.paused
       THEN UNCHANGED <<epoch, epochFile, cmds, isRunning>>
       ELSE /\ cmds' = Kill(cmds, ffmpegCmd)
            /\ isRunning' = FALSE
            /\ epoch' = [paused |-> TRUE,
                         pausedOffsetSeconds |->
                             currentOffset(wall, epoch, genesis.StartTime,
                                           videoDuration)]
            /\ UNCHANGED epochFile
    /\ UNCHANGED <<wall, mono, video, file, up, boots, genesis, videoDuration,
                   ffmpegCmd, lastAccess, viewersHLS, viewersLLHLS, mutex, pc,
                   ret, reapers, playlist, segs, stats, single, mtime,
                   statsSingle, wd, calc>>

\* pause(): nothing when paused already; else stop, freeze the offset of
\* the playing epoch, persist
pause ==
    /\ up
    /\ mutex = ""
    /\ ctl' = Called("pause", "", 0)
    /\ IF epoch.paused
       THEN UNCHANGED <<epoch, epochFile, cmds, isRunning>>
       ELSE /\ cmds' = Kill(cmds, ffmpegCmd)
            /\ isRunning' = FALSE
            /\ epoch' = [paused |-> TRUE,
                         pausedOffsetSeconds |->
                             currentOffset(wall, epoch, genesis.StartTime,
                                           videoDuration)]
            /\ epochFile' = epoch'
    /\ UNCHANGED <<wall, mono, video, file, up, boots, genesis, videoDuration,
                   ffmpegCmd, lastAccess, viewersHLS, viewersLLHLS, mutex, pc,
                   ret, reapers, playlist, segs, stats, single, mtime,
                   statsSingle, wd, calc>>

\* a resume that leaves the genesis where it was
ResumeKeepsOrigin ==
    /\ up
    /\ mutex = ""
    /\ ctl' = Called("resume", "", 0)
    /\ IF ~epoch.paused
       THEN UNCHANGED <<epoch, epochFile, genesis, file, cmds, ffmpegCmd,
                        isRunning, lastAccess, reapers, segs>>
       ELSE /\ epoch' = [epoch EXCEPT !.paused = FALSE]
            /\ epochFile' = epoch'
            /\ UNCHANGED <<genesis, file>>
            /\ IF isRunning
               THEN UNCHANGED <<cmds, ffmpegCmd, isRunning, lastAccess, reapers,
                                segs>>
               ELSE \E ok \in BOOLEAN : CtlStart(ok, genesis.StartTime)
    /\ UNCHANGED <<wall, mono, video, up, boots, videoDuration, viewersHLS,
                   viewersLLHLS, mutex, pc, ret, playlist, stats, single,
                   mtime, statsSingle, wd, calc>>

\* resume(): nothing when playing; else the genesis becomes now minus the
\* frozen offset, paused is cleared, both are persisted, and the
\* transcoder is started at once (start() does nothing when it is running)
resume ==
    /\ up
    /\ mutex = ""
    /\ ctl' = Called("resume", "", 0)
    /\ IF ~epoch.paused
       THEN UNCHANGED <<epoch, epochFile, genesis, file, cmds, ffmpegCmd,
                        isRunning, lastAccess, reapers, segs>>
       ELSE /\ epoch' = [epoch EXCEPT !.paused = FALSE]
            /\ epochFile' = epoch'
            /\ genesis' = [set |-> TRUE,
                           StartTime |-> wall - epoch.pausedOffsetSeconds]
            /\ file' = [exists |-> TRUE, start_time |-> genesis'.StartTime]
            /\ IF isRunning
               THEN UNCHANGED <<cmds, ffmpegCmd, isRunning, lastAccess, reapers,
                                segs>>
               ELSE \E ok \in BOOLEAN : CtlStart(ok, genesis'.StartTime)
    /\ UNCHANGED <<wall, mono, video, up, boots, videoDuration, viewersHLS,
                   viewersLLHLS, mutex, pc, ret, playlist, stats, single,
                   mtime, statsSingle, wd, calc>>

\* a seek that stops the transcoder before it looks at the target
SeekStopsFirst(x) ==
    /\ up
    /\ mutex = ""
    /\ x < 0 \/ x >= videoDuration
    /\ ctl' = Called("seek", "InvalidSeekTarget", x)
    /\ cmds' = Kill(cmds, ffmpegCmd)
    /\ isRunning' = FALSE
    /\ UNCHANGED <<wall, mono, video, file, up, boots, genesis, videoDuration,
                   ffmpegCmd, lastAccess, viewersHLS, viewersLLHLS, mutex, pc,
                   ret, reapers, playlist, segs, stats, single, mtime,
                   statsSingle, epoch, epochFile, wd, calc>>

\* seek(x) with x outside [0, videoDuration): InvalidSeekTarget
seekInvalid(x) ==
    /\ up
    /\ mutex = ""
    /\ x < 0 \/ x >= videoDuration
    /\ ctl' = Called("seek", "InvalidSeekTarget", x)
    /\ UNCHANGED <<wall, mono, video, file, up, boots, genesis, videoDuration,
                   ffmpegCmd, isRunning, lastAccess, viewersHLS, viewersLLHLS,
                   mutex, pc, ret, cmds, reapers, playlist, segs, stats,
                   single, mtime, statsSingle, epoch, epochFile, wd, calc>>

\* seek(x) with 0 <= x < videoDuration: stop; a paused epoch gets x as its
\* frozen offset and stays paused, a playing one gets the genesis now - x
\* and the transcoder is started at once; persist
seek(x) ==
    /\ up
    /\ mutex = ""
    /\ 0 <= x /\ x < videoDuration
    /\ ctl' = Called("seek", "", x)
    /\ IF epoch.paused
       THEN /\ epoch' = [epoch EXCEPT !.pausedOffsetSeconds = x]
            /\ cmds' = Kill(cmds, ffmpegCmd)
            /\ isRunning' = FALSE
            /\ UNCHANGED <<genesis, file, ffmpegCmd, lastAccess, reapers, segs>>
       ELSE /\ genesis' = [set |-> TRUE, StartTime |-> wall - x]
            /\ file' = [exists |-> TRUE, start_time |-> genesis'.StartTime]
            /\ UNCHANGED epoch
            /\ \E ok \in BOOLEAN : CtlStart(ok, genesis'.StartTime)
    /\ epochFile' = epoch'
    /\ UNCHANGED <<wall, mono, video, up, boots, videoDuration, viewersHLS,
                   viewersLLHLS, mutex, pc, ret, playlist, stats, single,
                   mtime, statsSingle, wd, calc>>

\* ---- background goroutines -----------------------------------------------

\* a watchdog that kills the idle transcoder and leaves isRunning set
WatchdogKillOnly ==
    /\ up
    /\ mutex = ""
    /\ IF isRunning /\ mono - lastAccess > IdleTimeout
       THEN cmds' = Kill(cmds, ffmpegCmd)
       ELSE UNCHANGED cmds
    /\ UNCHANGED <<wall, mono, video, file, up, boots, genesis, videoDuration,
                   ffmpegCmd, isRunning, lastAccess, viewersHLS, viewersLLHLS,
                   mutex, pc, ret, reapers, playlist, segs, stats, single,
                   mtime, statsSingle, epoch, epochFile, ctl, wd, calc>>

\* a watchdog that also brings a stopped transcoder back up
WatchdogRestarts ==
    /\ up
    /\ mutex = ""
    /\ IF isRunning /\ mono - lastAccess > IdleTimeout
       THEN /\ cmds' = Kill(cmds, ffmpegCmd)
            /\ isRunning' = FALSE
            /\ UNCHANGED <<ffmpegCmd, reapers, lastAccess, segs>>
       ELSE IF ~isRunning /\ Len(cmds) < MaxLaunches
            THEN /\ cmds' = Append(cmds, NewCmd(TRUE))
                 /\ ffmpegCmd' = Len(cmds) + 1
                 /\ reapers' = [reapers EXCEPT ![0] = @ + 1]
                 /\ isRunning' = TRUE
                 /\ lastAccess' = mono
                 /\ segs' = {}
            ELSE UNCHANGED <<cmds, isRunning, ffmpegCmd, reapers, lastAccess, segs>>
    /\ UNCHANGED <<wall, mono, video, file, up, boots, genesis, videoDuration,
                   viewersHLS, viewersLLHLS, mutex, pc, ret, playlist, stats,
                   single, mtime, statsSingle, epoch, epochFile, ctl, wd,
                   calc>>

\* a watchdog that does not take the lock
WatchdogNoLock ==
    /\ up
    /\ IF isRunning /\ mono - lastAccess > IdleTimeout
       THEN /\ cmds' = Kill(cmds, ffmpegCmd)
            /\ isRunning' = FALSE
       ELSE UNCHANGED <<cmds, isRunning>>
    /\ UNCHANGED <<wall, mono, video, file, up, boots, genesis, videoDuration,
                   ffmpegCmd, lastAccess, viewersHLS, viewersLLHLS, mutex, pc,
                   ret, reapers, playlist, segs, stats, single, mtime,
                   statsSingle, epoch, epochFile, ctl, wd, calc>>

\* one round of StreamManager.watchdog, under the lock
watchdog ==
    /\ up
    /\ mutex = ""
    /\ IF isRunning /\ mono - lastAccess > IdleTimeout
       THEN /\ cmds' = Kill(cmds, ffmpegCmd)
            /\ isRunning' = FALSE
       ELSE UNCHANGED <<cmds, isRunning>>
    /\ UNCHANGED <<wall, mono, video, file, up, boots, genesis, videoDuration,
                   ffmpegCmd, lastAccess, viewersHLS, viewersLLHLS, mutex, pc,
                   ret, reapers, playlist, segs, stats, single, mtime,
                   statsSingle, epoch, epochFile, ctl, wd, calc>>

\* go func() { sm.ffmpegCmd.Wait() }(): a goroutine starts to run, reads
\* sm.ffmpegCmd and enters its Wait
ReaperRead ==
    /\ reapers[0] > 0
    /\ reapers' = [reapers EXCEPT ![0] = @ - 1, ![ffmpegCmd] = @ + 1]
    /\ UNCHANGED <<wall, mono, video, file, up, boots, genesis, videoDuration,
                   ffmpegCmd, isRunning, lastAccess, viewersHLS, viewersLLHLS,
                   mutex, pc, ret, cmds, playlist, segs, stats, single, mtime,
                   statsSingle, epoch, epochFile, ctl, wd, calc>>

\* Wait on cmds[p] returns: the process has exited or was never started.
\* The result is dropped and the goroutine ends.
ReaperReturn(p) ==
    /\ p \in DOMAIN cmds
    /\ reapers[p] > 0
    /\ cmds[p].state # "running"
    /\ reapers' = [reapers EXCEPT ![p] = @ - 1]
    /\ UNCHANGED <<wall, mono, video, file, up, boots, genesis, videoDuration,
                   ffmpegCmd, isRunning, lastAccess, viewersHLS, viewersLLHLS,
                   mutex, pc, ret, cmds, playlist, segs, stats, single, mtime,
                   statsSingle, epoch, epochFile, ctl, wd, calc>>

\* ---- /api/stats ------------------------------------------------------------

\* a getViewerStats that still lists a client seen exactly at the cutoff
GetViewerStatsInclusive(v, now) == {ip \in DOMAIN v : v[ip] >= now - ActivityWindow}

\* StreamManager.getViewerStats, one map: the clients seen after the cutoff
\* (the sorted slice is kept as a set)
getViewerStats(v, now) == {ip \in DOMAIN v : v[ip] > now - ActivityWindow}

\* handleStats: the answer of GET /api/stats
handleStats ==
    /\ up
    /\ stats' = [shown |-> TRUE,
                 status |-> IF isRunning THEN "Broadcasting" ELSE "Idle",
                 is_running |-> isRunning,
                 current_playing |->
                     getCurrentPlayingTime(wall, genesis.StartTime, videoDuration),
                 viewers_hls |-> getViewerStats(viewersHLS, mono),
                 viewers_llhls |-> getViewerStats(viewersLLHLS, mono),
                 viewer_count |-> Cardinality(getViewerStats(viewersHLS, mono))
                                  + Cardinality(getViewerStats(viewersLLHLS, mono))]
    /\ UNCHANGED <<wall, mono, video, file, up, boots, genesis, videoDuration,
                   ffmpegCmd, isRunning, lastAccess, viewersHLS, viewersLLHLS,
                   mutex, pc, ret, cmds, reapers, playlist, segs, single,
                   mtime, statsSingle, epoch, epochFile, ctl, wd, calc>>

\* StreamManager.getViewerCount (single-stream): now.Sub(lastSeen) < 60 s
getViewerCount(v, now) ==
    Cardinality({ip \in DOMAIN v : now - v[ip] < ActivityWindow})

\* handleStats of the single-stream variant; its one viewer map sm.viewers
\* is fed by the playlist and segment handlers, as viewersHLS is here
handleStatsSingle ==
    /\ up
    /\ statsSingle' = [shown |-> TRUE,
                       viewer_count |-> getViewerCount(viewersHLS, mono)]
    /\ UNCHANGED <<wall, mono, video, file, up, boots, genesis, videoDuration,
                   ffmpegCmd, isRunning, lastAccess, viewersHLS, viewersLLHLS,
                   mutex, pc, ret, cmds, reapers, playlist, segs, stats,
                   single, mtime, epoch, epochFile, ctl, wd, calc>>

\* one map after a round of cleanupViewers: lastSeen.Before(cutoff) deletes
\* (single-stream: now.Sub(lastSeen) > 60 s, the same test)
sweep(v, now) ==
    [ip \in {c \in DOMAIN v : ~(v[c] < now - ActivityWindow)} |-> v[ip]]

\* a cleanupViewers whose second loop ranges over the first map again
CleanupCopiedLoop ==
    /\ up
    /\ viewersHLS' = sweep(viewersHLS, mono)
    /\ viewersLLHLS' =
          [ip \in DOMAIN viewersLLHLS \ (DOMAIN viewersHLS \ DOMAIN sweep(viewersHLS, mono))
              |-> viewersLLHLS[ip]]
    /\ UNCHANGED <<wall, mono, video, file, up, boots, genesis, videoDuration,
                   ffmpegCmd, isRunning, lastAccess, mutex, pc, ret, cmds,
                   reapers, playlist, segs, stats, single, mtime, statsSingle,
                   epoch, epochFile, ctl, wd, calc>>

\* one round of StreamManager.cleanupViewers
cleanupViewers ==
    /\ up
    /\ viewersHLS' = sweep(viewersHLS, mono)
    /\ viewersLLHLS' = sweep(viewersLLHLS, mono)
    /\ UNCHANGED <<wall, mono, video, file, up, boots, genesis, videoDuration,
                   ffmpegCmd, isRunning, lastAccess, mutex, pc, ret, cmds,
                   reapers, playlist, segs, stats, single, mtime, statsSingle,
                   epoch, epochFile, ctl, wd, calc>>

\* ---- the station -----------------------------------------------------------

Next ==
    \/ \E d \in TimeSteps : Tick(d)
    \/ Boot
    \/ Shutdown
    \/ Crash
    \/ \E h \in Handlers : Request(h)
    \/ \E h \in Handlers : StartAlreadyRunning(h)
    \/ \E h \in Handlers : StartLaunchFails(h)
    \/ \E h \in Handlers : StartLaunches(h)
    \/ \E h \in Handlers : PlaylistWait(h)
    \/ \E h \in Handlers : RespondError(h)
    \/ \E h \in Handlers : UpdateLastAccess(h)
    \/ watchdog
    \/ \E p \in 1..MaxLaunches : ProcWrite(p)
    \/ \E p \in 1..MaxLaunches : ProcExit(p)
    \/ ReaperRead
    \/ \E p \in 1..MaxLaunches : ReaperReturn(p)

\* the station under a wall clock that is never set back
Spec == Init /\ [][Next]_vars

\* a step of a request handler
Serve ==
    \E h \in Handlers :
        \/ Request(h)
        \/ StartAlreadyRunning(h)
        \/ StartLaunchFails(h)
        \/ StartLaunches(h)
        \/ PlaylistWait(h)
        \/ RespondError(h)
        \/ UpdateLastAccess(h)

\* the station with its watchdog goroutine scheduled again and again
\* (time.Sleep(5 * time.Second) in an endless loop) and players that keep
\* asking, every request served to its end
SpecFair == Spec /\ WF_vars(watchdog) /\ WF_vars(Serve)

\* the station under a wall clock that may be set back
NextSkew == Next \/ ClockStepBack
SpecSkew == Init /\ [][NextSkew]_vars

\* ---- the single-stream variant ----------------------------------------------
\* The single-stream server has one handler pair and one transcoder.  Its
\* handlePlaylist and its startFFmpeg take the steps of the dual-stream
\* handler (Request, Start..., PlaylistWait, RespondError at "hls"); what
\* differs is modelled here: lastAccess has its own accessMutex, stopFFmpeg
\* sends SIGTERM and waits for the process, and the watchdog reads isRunning
\* and lastAccess before stopFFmpeg takes the ffmpegMutex.

\* a running ffmpeg hangs (a blocked read of its input, a stopped process):
\* it neither writes nor exits any more
ProcHang(p) ==
    /\ p \in DOMAIN cmds
    /\ cmds[p].state = "running"
    /\ cmds' = [cmds EXCEPT ![p].state = "hung"]
    /\ UNCHANGED <<wall, mono, video, file, up, boots, genesis, videoDuration,
                   ffmpegCmd, isRunning, lastAccess, viewersHLS, viewersLLHLS,
                   mutex, pc, ret, reapers, playlist, segs, stats, single,
                   mtime, statsSingle, epoch, epochFile, ctl, wd, calc>>

\* handlePlaylist after startFFmpeg: updateLastAccess under the accessMutex,
\* then the playlist is served
updateLastAccessSingle(h) ==
    /\ pc[h] = "update"
    /\ lastAccess' = mono
    /\ ret' = [ret EXCEPT ![h] = NoRet]
    /\ pc' = [pc EXCEPT ![h] = "idle"]
    /\ UNCHANGED <<wall, mono, video, file, up, boots, genesis, videoDuration,
                   ffmpegCmd, isRunning, viewersHLS, viewersLLHLS, mutex, cmds,
                   reapers, playlist, segs, stats, single, mtime, statsSingle,
                   epoch, epochFile, ctl, wd, calc>>

\* handleSegment: trackViewer and updateLastAccess, then the segment is
\* served; it never starts the transcoder
handleSegment ==
    /\ up
    /\ \E ip \in Clients : viewersHLS' = trackViewer(viewersHLS, ip, mono)
    /\ lastAccess' = mono
    /\ UNCHANGED <<wall, mono, video, file, up, boots, genesis, videoDuration,
                   ffmpegCmd, isRunning, viewersLLHLS, mutex, pc, ret, cmds,
                   reapers, playlist, segs, stats, single, mtime, statsSingle,
                   epoch, epochFile, ctl, wd, calc>>

\* one round of the watchdog: isRunning is read without a lock, lastAccess
\* under the accessMutex; an idle station makes it call stopFFmpeg
watchdogSingle ==
    /\ up
    /\ wd = "sleep"
    /\ isRunning
    /\ mono - lastAccess > IdleTimeout
    /\ wd' = "stop"
    /\ UNCHANGED <<wall, mono, video, file, up, boots, genesis, videoDuration,
                   ffmpegCmd, isRunning, lastAccess, viewersHLS, viewersLLHLS,
                   mutex, pc, ret, cmds, reapers, playlist, segs, stats,
                   single, mtime, statsSingle, epoch, epochFile, ctl, calc>>

\* stopFFmpeg takes the ffmpegMutex: it returns at once when nothing runs,
\* otherwise it sends SIGTERM and begins cmd.Wait(), the lock held
stopFFmpegSignal ==
    /\ wd = "stop"
    /\ mutex = ""
    /\ IF ~isRunning \/ ffmpegCmd = 0
       THEN /\ wd' = "sleep"
            /\ UNCHANGED <<cmds, mutex>>
       ELSE /\ cmds' = Term(cmds, ffmpegCmd)
            /\ mutex' = "watchdog"
            /\ wd' = "wait"
    /\ UNCHANGED <<wall, mono, video, file, up, boots, genesis, videoDuration,
                   ffmpegCmd, isRunning, lastAccess, viewersHLS, viewersLLHLS,
                   pc, ret, reapers, playlist, segs, stats, single, mtime,
                   statsSingle, epoch, epochFile, ctl, calc>>

\* cmd.Wait() returns, which it does once the process has ended: isRunning
\* and ffmpegCmd are cleared and the lock is released
stopFFmpegReturn ==
    /\ wd = "wait"
    /\ cmds[ffmpegCmd].state \notin {"running", "hung"}
    /\ isRunning' = FALSE
    /\ ffmpegCmd' = 0
    /\ mutex' = ""
    /\ wd' = "sleep"
    /\ UNCHANGED <<wall, mono, video, file, up, boots, genesis, videoDuration,
                   lastAccess, viewersHLS, viewersLLHLS, pc, ret, cmds,
                   reapers, playlist, segs, stats, single, mtime, statsSingle,
                   epoch, epochFile, ctl, calc>>

\* a step of the playlist handler of the single-stream server, one request
\* at a time (the early return of startFFmpeg is for a second request)
ServeSingle ==
    \/ Request("hls")
    \/ StartLaunchFails("hls")
    \/ StartLaunches("hls")
    \/ PlaylistWait("hls")
    \/ RespondError("hls")
    \/ updateLastAccessSingle("hls")

NextSingle ==
    \/ \E d \in TimeSteps : Tick(d)
    \/ Boot
    \/ Crash
    \/ Request("hls")
    \/ StartLaunchFails("hls")
    \/ StartLaunches("hls")
    \/ PlaylistWait("hls")
    \/ RespondError("hls")
    \/ updateLastAccessSingle("hls")
    \/ handleSegment
    \/ watchdogSingle
    \/ stopFFmpegSignal
    \/ stopFFmpegReturn
    \/ \E p \in 1..MaxLaunches : ProcWrite(p)
    \/ \E p \in 1..MaxLaunches : ProcHang(p)

\* the single-stream server
SpecSingle == Init /\ [][NextSingle]_vars

\* the single-stream server with its goroutines scheduled again and again
\* and every request served to its end
SpecSingleFair ==
    /\ SpecSingle
    /\ WF_vars(watchdogSingle)
    /\ WF_vars(stopFFmpegSignal)
    /\ WF_vars(stopFFmpegReturn)
    /\ WF_vars(ServeSingle)

\* ---- the station and its viewer registry: the two locks ----------------------

\* half a minute and a second pass
LockTick ==
    /\ mono + IdleTimeout + 1 <= MaxLockTime
    /\ mono' = mono + IdleTimeout + 1
    /\ wall' = wall + IdleTimeout + 1
    /\ UNCHANGED <<video, file, up, boots, genesis, videoDuration, ffmpegCmd,
                   isRunning, lastAccess, viewersHLS, viewersLLHLS, mutex, pc,
                   ret, cmds, reapers, playlist, segs, stats, single, mtime,
                   statsSingle, epoch, epochFile, ctl, wd, calc>>

\* the goroutines that take ffmpegMutex and those that take viewersMutex
NextLocks ==
    \/ LockTick
    \/ Boot
    \/ Shutdown
    \/ Crash
    \/ \E h \in Handlers : Request(h)
    \/ \E h \in Handlers : StartAlreadyRunning(h)
    \/ \E h \in Handlers : StartLaunchFails(h)
    \/ \E h \in Handlers : StartLaunches(h)
    \/ \E h \in Handlers : PlaylistWait(h)
    \/ \E h \in Handlers : RespondError(h)
    \/ \E h \in Handlers : UpdateLastAccess(h)
    \/ watchdog
    \/ cleanupViewers
    \/ handleStats

SpecLocks == Init /\ [][NextLocks]_vars

\* ---- the position calculation on its own ----------------------------------
\* The station has booted for the first time (genesis = the wall clock of
\* that instant) and the clock runs, forward second by second and back when
\* it is stepped; at every instant the position is calculated as startFFmpeg,
\* /api/stats and the single-stream startFFmpeg calculate it.  What was
\* calculated at one instant is dropped when the clock moves.

PosInit ==
    /\ wall = MaxSkew
    /\ mono = 0
    /\ video \in PosDurations
    /\ file = [exists |-> TRUE, start_time |-> MaxSkew]
    /\ up = TRUE
    /\ boots = 1
    /\ genesis = [set |-> TRUE, StartTime |-> MaxSkew]
    /\ videoDuration = video
    /\ ffmpegCmd = 0
    /\ isRunning = FALSE
    /\ lastAccess = 0
    /\ viewersHLS = NoViewers
    /\ viewersLLHLS = NoViewers
    /\ mutex = ""
    /\ pc = Idle
    /\ ret = NoRets
    /\ cmds = <<>>
    /\ reapers = NoReapers
    /\ playlist = 0
    /\ segs = {}
    /\ stats = NoStats
    /\ single = NoSingle
    /\ mtime = 0
    /\ statsSingle = NoStatsSingle
    /\ epoch = NoEpoch
    /\ epochFile = NoEpoch
    /\ ctl = NoCtl
    /\ wd = "sleep"
    /\ calc = NoCalc

PosTick ==
    /\ wall < MaxNow
    /\ wall' = wall + 1
    /\ mono' = mono + 1
    /\ cmds' = <<>>
    /\ stats' = NoStats
    /\ single' = NoSingle
    /\ UNCHANGED <<video, file, up, boots, genesis, videoDuration, ffmpegCmd,
                   isRunning, lastAccess, viewersHLS, viewersLLHLS, mutex, pc,
                   ret, reapers, playlist, segs, mtime, statsSingle, epoch,
                   epochFile, ctl, wd, calc>>

PosStepBack ==
    /\ mono + MaxSkew - wall < MaxSkew
    /\ wall' = wall - 1
    /\ cmds' = <<>>
    /\ stats' = NoStats
    /\ single' = NoSingle
    /\ UNCHANGED <<mono, video, file, up, boots, genesis, videoDuration,
                   ffmpegCmd, isRunning, lastAccess, viewersHLS, viewersLLHLS,
                   mutex, pc, ret, reapers, playlist, segs, mtime, statsSingle,
                   epoch, epochFile, ctl, wd, calc>>

\* startFFmpeg's call of calculateCurrentPosition and the arguments it
\* builds from the result
PosCalc ==
    /\ cmds' = <<NewCmd(TRUE)>>
    /\ UNCHANGED <<wall, mono, video, file, up, boots, genesis, videoDuration,
                   ffmpegCmd, isRunning, lastAccess, viewersHLS, viewersLLHLS,
                   mutex, pc, ret, reapers, playlist, segs, stats, single,
                   mtime, statsSingle, epoch, epochFile, ctl, wd, calc>>

\* the single-stream startFFmpeg: sm.currentSeek and sm.startNumber
PosCalcSingle ==
    /\ LET p == calculateCurrentPositionSingle(wall, genesis.StartTime, videoDuration)
       IN  single' = [set |-> TRUE, currentSeek |-> p.seekTime,
                      startNumber |-> p.startNumber, now |-> wall]
    /\ UNCHANGED <<wall, mono, video, file, up, boots, genesis, videoDuration,
                   ffmpegCmd, isRunning, lastAccess, viewersHLS, viewersLLHLS,
                   mutex, pc, ret, cmds, reapers, playlist, segs, stats, mtime,
                   statsSingle, epoch, epochFile, ctl, wd, calc>>

PosNext == PosTick \/ PosStepBack \/ PosCalc \/ PosCalcSingle \/ handleStats

SpecPos == PosInit /\ [][PosNext]_vars

\* ---- the loop of the position calculation, iteration by iteration ------------

\* durations that getVideoDuration stores: whatever number ffprobe prints
\* and strconv.ParseFloat reads, a duration of 0 included
ProbedDurations == {0, 3}

CalcInit ==
    /\ wall = MaxSkew
    /\ mono = 0
    /\ video \in ProbedDurations
    /\ file = [exists |-> TRUE, start_time |-> MaxSkew]
    /\ up = TRUE
    /\ boots = 1
    /\ genesis = [set |-> TRUE, StartTime |-> MaxSkew]
    /\ videoDuration = video
    /\ ffmpegCmd = 0
    /\ isRunning = FALSE
    /\ lastAccess = 0
    /\ viewersHLS = NoViewers
    /\ viewersLLHLS = NoViewers
    /\ mutex = ""
    /\ pc = Idle
    /\ ret = NoRets
    /\ cmds = <<>>
    /\ reapers = NoReapers
    /\ playlist = 0
    /\ segs = {}
    /\ stats = NoStats
    /\ single = NoSingle
    /\ mtime = 0
    /\ statsSingle = NoStatsSingle
    /\ epoch = NoEpoch
    /\ epochFile = NoEpoch
    /\ ctl = NoCtl
    /\ wd = "sleep"
    /\ calc = NoCalc

\* a second passes
CalcTick ==
    /\ wall < MaxCalcTime
    /\ wall' = wall + 1
    /\ mono' = mono + 1
    /\ UNCHANGED <<video, file, up, boots, genesis, videoDuration,
                   ffmpegCmd, isRunning, lastAccess, viewersHLS, viewersLLHLS,
                   mutex, pc, ret, cmds, reapers, playlist, segs, stats,
                   single, mtime, statsSingle, epoch, epochFile, ctl, wd, calc>>

\* calculateCurrentPosition / getCurrentPlayingTime up to the loop:
\* seekTime := float64(now - genesis.StartTime)
calcEnter ==
    /\ up
    /\ calc.at \in {"idle", "done"}
    /\ calc' = [at |-> "loop", seekTime |-> wall - genesis.StartTime]
    /\ UNCHANGED <<wall, mono, video, file, up, boots, genesis, videoDuration,
                   ffmpegCmd, isRunning, lastAccess, viewersHLS, viewersLLHLS,
                   mutex, pc, ret, cmds, reapers, playlist, segs, stats,
                   single, mtime, statsSingle, epoch, epochFile, ctl, wd>>

\* `for seekTime >= sm.videoDuration`: the condition holds, the body is next
calcTest ==
    /\ calc.at = "loop"
    /\ calc.seekTime >= videoDuration
    /\ calc' = [calc EXCEPT !.at = "body"]
    /\ UNCHANGED <<wall, mono, video, file, up, boots, genesis, videoDuration,
                   ffmpegCmd, isRunning, lastAccess, viewersHLS, viewersLLHLS,
                   mutex, pc, ret, cmds, reapers, playlist, segs, stats,
                   single, mtime, statsSingle, epoch, epochFile, ctl, wd>>

\* the body `seekTime -= sm.videoDuration`, then back to the condition
calcBody ==
    /\ calc.at = "body"
    /\ calc' = [at |-> "loop", seekTime |-> calc.seekTime - videoDuration]
    /\ UNCHANGED <<wall, mono, video, file, up, boots, genesis, videoDuration,
                   ffmpegCmd, isRunning, lastAccess, viewersHLS, viewersLLHLS,
                   mutex, pc, ret, cmds, reapers, playlist, segs, stats,
                   single, mtime, statsSingle, epoch, epochFile, ctl, wd>>

\* the loop condition is false: the function goes on to its return
calcExit ==
    /\ calc.at = "loop"
    /\ calc.seekTime < videoDuration
    /\ calc' = [calc EXCEPT !.at = "done"]
    /\ UNCHANGED <<wall, mono, video, file, up, boots, genesis, videoDuration,
                   ffmpegCmd, isRunning, lastAccess, viewersHLS, viewersLLHLS,
                   mutex, pc, ret, cmds, reapers, playlist, segs, stats,
                   single, mtime, statsSingle, epoch, epochFile, ctl, wd>>

CalcNext ==
    \/ CalcTick
    \/ calcEnter
    \/ calcTest
    \/ calcBody
    \/ calcExit

SpecCalc == CalcInit /\ [][CalcNext]_vars

\* the goroutine that runs the calculation is scheduled again and again
SpecCalcFair ==
    SpecCalc /\ WF_vars(calcTest) /\ WF_vars(calcBody) /\ WF_vars(calcExit)

\* ---- the station with playback control --------------------------------------
\* Requests on the HLS handler, the playback-control calls and restarts,
\* the clock running second by second (the idle watchdog has no part in
\* so short a time).

CtlTick ==
    /\ mono < MaxCtlTime
    /\ mono' = mono + 1
    /\ wall' = wall + 1
    /\ UNCHANGED <<video, file, up, boots, genesis, videoDuration, ffmpegCmd,
                   isRunning, lastAccess, viewersHLS, viewersLLHLS, mutex, pc,
                   ret, cmds, reapers, playlist, segs, stats, single, mtime,
                   statsSingle, epoch, epochFile, ctl, wd, calc>>

CtlNext ==
    \/ CtlTick
    \/ Boot
    \/ Crash
    \/ Request("hls")
    \/ StartAlreadyRunning("hls")
    \/ StartLaunchFails("hls")
    \/ StartLaunches("hls")
    \/ PlaylistWait("hls")
    \/ RespondError("hls")
    \/ UpdateLastAccess("hls")
    \/ pause
    \/ resume
    \/ \E x \in SeekTargets : seekInvalid(x)
    \/ \E x \in SeekTargets : seek(x)

SpecCtl == Init /\ [][CtlNext]_vars

\* ---- the viewer registry on its own ---------------------------------------
\* The station is up and the clock runs second by second; clients ask for
\* stream files (only the trackViewer call of the handler is followed
\* here), the cleanup goroutine sweeps, and /api/stats is read.  An answer
\* of /api/stats is dropped when the clock moves or a client is recorded.

\* a second passes
ViewTick ==
    /\ mono < MaxViewTime
    /\ mono' = mono + 1
    /\ wall' = wall + 1
    /\ stats' = NoStats
    /\ statsSingle' = NoStatsSingle
    /\ UNCHANGED <<video, file, up, boots, genesis, videoDuration, ffmpegCmd,
                   isRunning, lastAccess, viewersHLS, viewersLLHLS, mutex, pc,
                   ret, cmds, reapers, playlist, segs, single, mtime, epoch,
                   epochFile, ctl, wd, calc>>

\* createStreamHandler up to streamManager.trackViewer(ip, streamType)
Visit(h) ==
    /\ up
    /\ \E ip \in Clients :
          /\ viewersHLS' = IF h = "hls"
                           THEN trackViewer(viewersHLS, ip, mono) ELSE viewersHLS
          /\ viewersLLHLS' = IF h = "llhls"
                             THEN trackViewer(viewersLLHLS, ip, mono) ELSE viewersLLHLS
    /\ stats' = NoStats
    /\ statsSingle' = NoStatsSingle
    /\ UNCHANGED <<wall, mono, video, file, up, boots, genesis, videoDuration,
                   ffmpegCmd, isRunning, lastAccess, mutex, pc, ret, cmds,
                   reapers, playlist, segs, single, mtime, epoch, epochFile,
                   ctl, wd, calc>>

ViewNext ==
    \/ ViewTick
    \/ \E h \in Handlers : Visit(h)
    \/ cleanupViewers
    \/ handleStats
    \/ handleStatsSingle

SpecViewers == PosInit /\ [][ViewNext]_vars

\* ======================= the claims ==========================================

\* every position that is on show in a state: what startFFmpeg handed to
\* ffmpeg (dual-stream), what the single-stream startFFmpeg stored, and what
\* /api/stats printed; each with the elapsed time it was calculated from
Offsets ==
    {[elapsed |-> cmds[i].now - cmds[i].startTime, offset |-> cmds[i].seekTime,
      duration |-> cmds[i].duration] : i \in DOMAIN cmds}
    \cup {[elapsed |-> single.now - genesis.StartTime, offset |-> single.currentSeek,
           duration |-> videoDuration] : x \in {y \in {1} : single.set}}
    \cup {[elapsed |-> wall - genesis.StartTime,
           offset |-> stats.current_playing[1] * 3600
                      + stats.current_playing[2] * 60 + stats.current_playing[3],
           duration |-> videoDuration] : x \in {y \in {1} : stats.shown}}

\* C1 -- Loop wrap: whenever elapsed = k * videoDuration + r with k >= 0 and
\* 0 <= r < videoDuration, the offset handed to the transcoder and the one
\* shown by /api/stats is exactly r.
\* (k and r are the quotient and the remainder of elapsed by videoDuration.)
C1_LoopWrap ==
    \A o \in Offsets :
        o.elapsed >= 0 =>
            LET k == o.elapsed \div o.duration
                r == o.elapsed - k * o.duration
            IN  (k >= 0 /\ 0 <= r /\ r < o.duration) => o.offset = r

\* the loop has wrapped twice (elapsed 250 of a 100 second video) and the
\* offset, 50, is with the transcoder and on the dashboard
C1_Witness ==
    /\ videoDuration = 100
    /\ wall - genesis.StartTime = 250
    /\ Len(cmds) = 1 /\ cmds[1].seekTime = 50
    /\ single.set /\ single.currentSeek = 50
    /\ stats.shown /\ stats.current_playing = <<0, 0, 50>>

\* C2 -- The current offset always lies in [0, videoDuration); when the wall
\* clock is behind the genesis the elapsed time counts as 0, so the offset
\* is 0.  (The code hands out the negative elapsed time itself.)
C2_OffsetInRange ==
    \A o \in Offsets :
        /\ 0 <= o.offset
        /\ o.offset < o.duration
        /\ o.elapsed < 0 => o.offset = 0

\* the numbers of every position calculated in a state: elapsed time, offset
\* in the loop, segment duration of the profile and its start number
StartNumbers ==
    {[elapsed |-> cmds[i].now - cmds[i].startTime, offset |-> cmds[i].seekTime,
      segment |-> SegmentDurationHLS, number |-> cmds[i].startNumberHLS,
      duration |-> cmds[i].duration] : i \in DOMAIN cmds}
    \cup {[elapsed |-> cmds[i].now - cmds[i].startTime, offset |-> cmds[i].seekTime,
           segment |-> SegmentDurationLLHLS, number |-> cmds[i].startNumberLLHLS,
           duration |-> cmds[i].duration] : i \in DOMAIN cmds}
    \cup {[elapsed |-> single.now - genesis.StartTime, offset |-> single.currentSeek,
           segment |-> SegmentDuration, number |-> single.startNumber,
           duration |-> videoDuration] : x \in {y \in {1} : single.set}}

\* C3, as claimed -- the start number of each profile is
\* floor(currentOffset / segmentDuration), taken from the offset in the
\* current loop; 100 / 250 / 4 gives 12.  (Stated for the instants that are
\* not before the genesis, where the offset itself is as claimed.)
C3_NumberFromOffset ==
    \A n \in StartNumbers :
        /\ n.elapsed >= 0 =>
              /\ n.number * n.segment <= n.offset
              /\ n.offset < (n.number + 1) * n.segment
        /\ (n.duration = 100 /\ n.elapsed = 250 /\ n.segment = 4) => n.number = 12

\* C3, amended -- the start number of each profile is
\* (now - genesis) / segmentDuration truncated toward zero (the floor when
\* now >= genesis), taken from the global elapsed time; 100 / 250 / 4 gives
\* 62, and the number does not drop when the loop wraps.
C3_NumberFromElapsed ==
    \A n \in StartNumbers :
        /\ n.elapsed >= 0 =>
              /\ n.number * n.segment <= n.elapsed
              /\ n.elapsed < (n.number + 1) * n.segment
        /\ n.elapsed < 0 =>
              /\ n.number <= 0
              /\ n.elapsed <= n.number * n.segment
              /\ (n.number - 1) * n.segment < n.elapsed
        /\ (n.duration = 100 /\ n.elapsed = 250 /\ n.segment = 4) => n.number = 62
        /\ n.elapsed >= n.duration => n.number >= n.duration \div n.segment

\* the scenario of the claim: 250 seconds into a 100 second video, offset
\* 50, the 4 second profile starts at segment 62
C3_Witness ==
    /\ Len(cmds) = 1
    /\ cmds[1].duration = 100
    /\ cmds[1].now - cmds[1].startTime = 250
    /\ cmds[1].seekTime = 50
    /\ cmds[1].startNumberHLS = 62
    /\ cmds[1].startNumberLLHLS = 250

\* the transcoder processes that were started
Started == {i \in DOMAIN cmds : cmds[i].state # "notstarted"}

\* C4 -- Segment numbering never resets: of two starts under the same
\* genesis the later (by the wall clock) has start numbers at least as
\* large, and every start number is (t - genesis) / segmentDuration rounded
\* down.
C4_NumberingNeverResets ==
    /\ \A i, j \in Started :
          (cmds[i].startTime = cmds[j].startTime /\ cmds[i].now <= cmds[j].now)
              => /\ cmds[i].startNumberHLS <= cmds[j].startNumberHLS
                 /\ cmds[i].startNumberLLHLS <= cmds[j].startNumberLLHLS
    /\ \A i \in Started :
          LET elapsed == cmds[i].now - cmds[i].startTime
          IN  /\ cmds[i].startNumberHLS * SegmentDurationHLS <= elapsed
              /\ elapsed < (cmds[i].startNumberHLS + 1) * SegmentDurationHLS
              /\ cmds[i].startNumberLLHLS * SegmentDurationLLHLS <= elapsed
              /\ elapsed < (cmds[i].startNumberLLHLS + 1) * SegmentDurationLLHLS

C8_LaunchFailure ==
    [][\A h \in Handlers :
          /\ (pc[h] = "start" /\ pc'[h] = "failed")
                => /\ ret'[h].err
                   /\ ~isRunning'
                   /\ cmds'[ffmpegCmd'].state = "notstarted"
          /\ (pc[h] = "start" /\ pc'[h] # "start" /\ up' /\ ~isRunning)
                => Len(cmds') = Len(cmds) + 1]_vars

\* a launch failed and the next startFFmpeg of the same process launched
C8_Witness ==
    /\ up
    /\ boots = 1
    /\ Len(cmds) = 2
    /\ cmds[1].state = "notstarted"
    /\ cmds[2].state = "running"
    /\ isRunning

\* C9 -- Playlist timeout: when the wait for the playlist runs out,
\* startFFmpeg returns an error and the transcoder is stopped.
C9_PlaylistTimeoutReported ==
    \A h \in Handlers :
        (pc[h] = "update" /\ ret[h].path = "timeout") => (ret[h].err /\ ~isRunning)

\* C10 -- Unexpected termination: the station is never up with isRunning
\* true, the ffmpeg process exited and every reaper goroutine that could
\* see the exit already returned (whoever reports the exit would have ended
\* the process or cleared isRunning by then).
C10_UnexpectedExitFatal ==
    ~ /\ up
      /\ isRunning
      /\ mutex = ""
      /\ ffmpegCmd # 0
      /\ cmds[ffmpegCmd].state = "exited"
      /\ reapers[0] = 0
      /\ reapers[ffmpegCmd] = 0

\* the playlist of the running transcoder was last written more than
\* StallWindow ago
Stalled ==
    /\ up
    /\ isRunning
    /\ playlist = ffmpegCmd
    /\ mono - mtime > StallWindow

\* C11 -- Stall detection: once the transcoder is running and its playlist
\* has not been written for more than StallWindow, the periodic monitor
\* (the watchdog goroutine is the only monitor of the transcoder) ends the
\* application, unless the playlist advances again first.  (Stated for
\* viewers still asking, so that the idle stop is not what ends the stall.)
C11_StallIsFatal ==
    (Stalled /\ mono - lastAccess <= IdleTimeout) ~> (~up \/ ~Stalled)

\* the clients of map v that were last recorded less than ActivityWindow ago
Active(v, now) == {ip \in DOMAIN v : now - v[ip] < ActivityWindow}

\* C12 -- Viewer expiry: every answer of /api/stats lists and counts, per
\* profile, exactly the recorded clients with now - lastSeen < ActivityWindow
\* (so one recorded at t0 is counted at t0 + 59 and not at t0 + 61), and a
\* sweep removes only clients that are not counted any more, so that it
\* changes no count.
C12_ViewerExpiry ==
    [][/\ stats'.shown =>
            /\ stats'.viewers_hls = Active(viewersHLS', mono')
            /\ stats'.viewers_llhls = Active(viewersLLHLS', mono')
            /\ stats'.viewer_count = Cardinality(Active(viewersHLS', mono'))
                                     + Cardinality(Active(viewersLLHLS', mono'))
       /\ statsSingle'.shown =>
            statsSingle'.viewer_count = Cardinality(Active(viewersHLS', mono'))
       /\ up' =>
            /\ \A ip \in DOMAIN viewersHLS \ DOMAIN viewersHLS' :
                  mono - viewersHLS[ip] >= ActivityWindow
            /\ \A ip \in DOMAIN viewersLLHLS \ DOMAIN viewersLLHLS' :
                  mono - viewersLLHLS[ip] >= ActivityWindow]_vars

\* /api/stats is read when one client was recorded 59 s ago on one profile
\* (listed) and 61 s ago on the other (not listed, though not yet swept)
C12_Witness ==
    /\ stats.shown
    /\ statsSingle.shown
    /\ \E ip \in Clients :
          /\ ip \in DOMAIN viewersHLS
          /\ mono - viewersHLS[ip] = ActivityWindow - 1
          /\ ip \in stats.viewers_hls
          /\ statsSingle.viewer_count = 1
          /\ ip \in DOMAIN viewersLLHLS
          /\ mono - viewersLLHLS[ip] = ActivityWindow + 1
          /\ ip \notin stats.viewers_llhls
          /\ stats.viewer_count = 1

\* the offset on air in the state a step leads to
OffsetAfter == currentOffset(wall', epoch', genesis'.StartTime, videoDuration')
\* the exec.Cmd built by the step
LaunchedCmd == cmds'[Len(cmds')]

\* C13 -- Valid seek: seek(x) with 0 <= x < videoDuration succeeds and the
\* offset at that instant is x; a paused epoch stays paused with
\* pausedOffsetSeconds = x, a playing one gets the genesis now - x and the
\* transcoder is launched at x with the start numbers floor(x / segment
\* duration); the transcoder that resume launches from a paused epoch
\* starts at the frozen offset with the numbers of that offset.
C13_ValidSeek ==
    [][/\ \A x \in SeekTargets :
            ((seek(x) \/ seekInvalid(x)) /\ 0 <= x /\ x < videoDuration) =>
                /\ ctl' = [op |-> "seek", err |-> "", target |-> x,
                           offset |-> ctl'.offset]
                /\ OffsetAfter = x
                /\ epoch.paused =>
                      /\ epoch' = [paused |-> TRUE, pausedOffsetSeconds |-> x]
                      /\ genesis' = genesis
                /\ ~epoch.paused =>
                      /\ ~epoch'.paused
                      /\ genesis'.StartTime = wall - x
                      /\ Len(cmds') = Len(cmds) + 1
                      /\ LaunchedCmd.seekTime = x
                      /\ LaunchedCmd.startNumberHLS = x \div SegmentDurationHLS
                      /\ LaunchedCmd.startNumberLLHLS = x \div SegmentDurationLLHLS
       /\ (resume /\ epoch.paused /\ Len(cmds') = Len(cmds) + 1) =>
            /\ LaunchedCmd.seekTime = epoch.pausedOffsetSeconds
            /\ LaunchedCmd.startNumberHLS
                 = epoch.pausedOffsetSeconds \div SegmentDurationHLS
            /\ LaunchedCmd.startNumberLLHLS
                 = epoch.pausedOffsetSeconds \div SegmentDurationLLHLS]_vars

\* a seek to 4 s on a playing station has launched the transcoder there,
\* on segment 1 of the 4-second profile
C13_Witness ==
    /\ ctl.op = "seek"
    /\ ctl.err = ""
    /\ ctl.target = SegmentDurationHLS
    /\ ctl.offset # ctl.target
    /\ ~epoch.paused
    /\ isRunning
    /\ cmds[ffmpegCmd].state = "running"
    /\ cmds[ffmpegCmd].seekTime = ctl.target
    /\ cmds[ffmpegCmd].startNumberHLS = 1
    /\ currentOffset(wall, epoch, genesis.StartTime, videoDuration) = ctl.target

\* C14 -- Invalid seek: seek(x) with x < 0 or x >= videoDuration fails with
\* InvalidSeekTarget and changes neither the epoch, in memory or persisted,
\* nor the supervisor; a running transcoder keeps running.
C14_InvalidSeek ==
    [][\A x \in SeekTargets :
          ((seek(x) \/ seekInvalid(x)) /\ (x < 0 \/ x >= videoDuration)) =>
              /\ ctl'.op = "seek"
              /\ ctl'.err = "InvalidSeekTarget"
              /\ UNCHANGED <<epoch, epochFile, genesis, file, isRunning,
                             ffmpegCmd, cmds, lastAccess>>]_vars

\* seek(videoDuration) was refused while the transcoder runs
C14_Witness ==
    /\ ctl.op = "seek"
    /\ ctl.err = "InvalidSeekTarget"
    /\ ctl.target = videoDuration
    /\ isRunning
    /\ cmds[ffmpegCmd].state = "running"
    /\ ~epoch.paused

\* C15 -- Pause/resume round trip: resume on a paused epoch sets the
\* genesis to now - pausedOffsetSeconds, so the offset right after it is the
\* frozen offset, which is the offset that was on air when pause arrived,
\* however long the pause lasted.
C15_PauseResumeRoundTrip ==
    [][(resume /\ epoch.paused) =>
          /\ ~epoch'.paused
          /\ genesis'.StartTime = wall - epoch.pausedOffsetSeconds
          /\ OffsetAfter = epoch.pausedOffsetSeconds
          /\ ctl.op = "pause" => OffsetAfter = ctl.offset]_vars

\* the first boot's station was paused at its first instant (offset 0) and
\* resumed at a later one: the genesis is the instant of the resume
C15_Witness ==
    /\ ctl.op = "resume"
    /\ ~epoch.paused
    /\ boots = 1
    /\ epoch.pausedOffsetSeconds = 0
    /\ ctl.offset = 0
    /\ genesis.StartTime = wall
    /\ lastAccess < mono
    /\ file.start_time = wall

\* C16 -- Pause freezes the position: pause() on a playing epoch stops the
\* transcoder and leaves paused = true with pausedOffsetSeconds = elapsed
\* mod videoDuration of that instant; while the epoch stays paused and no
\* seek is made the offset keeps that value as the clock runs; pause() on a
\* paused epoch changes nothing.
C16_PauseFreezes ==
    [][/\ (pause /\ ~epoch.paused) =>
            /\ epoch'.paused
            /\ epoch'.pausedOffsetSeconds
                 = (wall - genesis.StartTime) % videoDuration
            /\ OffsetAfter = epoch'.pausedOffsetSeconds
       /\ (pause /\ epoch.paused) =>
            UNCHANGED <<epoch, epochFile, genesis, file, isRunning, cmds>>
       /\ (epoch.paused /\ epoch'.paused /\ ~(\E x \in SeekTargets : seek(x))) =>
            OffsetAfter = epoch.pausedOffsetSeconds]_vars

\* the station was paused at offset 1 and the clock has moved on since
C16_Witness ==
    /\ up
    /\ epoch.paused
    /\ ctl.op = "pause"
    /\ epoch.pausedOffsetSeconds = 1
    /\ ctl.offset = 1
    /\ wall - genesis.StartTime > 1
    /\ currentOffset(wall, epoch, genesis.StartTime, videoDuration) = 1

\* C17 -- A paused epoch has a stopped transcoder: in every state
\* epoch.paused implies that isRunning is false.
C17_PausedImpliesStopped ==
    epoch.paused => ~isRunning

Live(c) == {i \in DOMAIN c : c[i].state = "running"}

\* C19 -- start() does nothing when the transcoder is running: a
\* startFFmpeg that finds isRunning set under the lock launches nothing,
\* also for a handler that saw it unset before; every launch happens with
\* no earlier ffmpeg process alive, so at most one is alive at any time.
C19_SingleLaunch ==
    [][/\ Cardinality(Live(cmds')) <= 1
       /\ (Len(cmds') = Len(cmds) + 1) => (Live(cmds) = {} /\ ~isRunning)
       /\ \A h \in Handlers :
            (up' /\ pc[h] = "start" /\ pc'[h] # "start" /\ isRunning) =>
                /\ cmds' = cmds
                /\ ffmpegCmd' = ffmpegCmd
                /\ pc'[h] = "update"]_vars

\* both handlers saw the transcoder stopped; one launched it, and the
\* startFFmpeg of the other found it running and launched nothing
C19_Witness ==
    /\ isRunning
    /\ Len(cmds) = 1
    /\ cmds[1].state = "running"
    /\ \E h1, h2 \in Handlers :
          /\ h1 # h2
          /\ pc[h1] = "update"
          /\ ret[h1].path = "already"
          /\ ret[h2].path \in {"found", "timeout"}

\* C20 -- The process handle is set iff running: whenever the station is
\* up and the lock is free, sm.ffmpegCmd is non-nil exactly when isRunning
\* is true.
C20_HandleIffRunning ==
    (up /\ mutex = "") => (ffmpegCmd # 0 <=> isRunning)

\* C21: stop() comes to an end and leaves the transcoder stopped: a call of
\* stopFFmpeg by the watchdog returns, with isRunning false.
C21_StopTerminates == (wd = "stop") ~> (wd = "sleep" /\ ~isRunning)

\* C22: the idle watchdog stops the transcoder only when the last start or
\* request is more than IdleTimeout old: a step of the serving process that
\* clears isRunning is taken with mono - lastAccess > IdleTimeout.
C22_NoStopWhileActive ==
    [][(up /\ up' /\ isRunning /\ ~isRunning') =>
            mono - lastAccess > IdleTimeout]_vars

\* C23: every read of isRunning or lastAccess that decides about a start or
\* a stop is made holding the ffmpegMutex: the step in which a handler
\* decides whether to call startFFmpeg, and the step in which the watchdog
\* decides to call stopFFmpeg, are steps of the holder of the lock.
C23_DecisionsUnderLock ==
    [][/\ \A h \in Handlers :
            (pc[h] = "idle" /\ pc'[h] \in {"start", "update"}) => mutex' = h
       /\ (wd = "sleep" /\ wd' = "stop") => mutex' = "watchdog"]_vars

\* C24: a start in flight is not interleaved with another Supervisor
\* operation: from the launch to the return of startFFmpeg, the playlist wait
\* included, the caller holds the lock, and no step of the serving process
\* stops the transcoder, launches another one, clears the segments or takes
\* the lock away; the lock is given up by the return of that start only.
C24_StartNotInterleaved ==
    [][(mutex \in Handlers /\ up') =>
          /\ isRunning' = isRunning
          /\ ffmpegCmd' = ffmpegCmd
          /\ Len(cmds') = Len(cmds)
          /\ segs \subseteq segs'
          /\ pc[mutex] = "wait"
          /\ \/ mutex' = mutex /\ pc'[mutex] = "wait"
             \/ mutex' = "" /\ pc'[mutex] = "update"]_vars

\* a start is in flight while a second handler waits to start and the
\* station counts as idle: the second start and the watchdog are both due
C24_Witness ==
    /\ mutex = "hls"
    /\ pc["hls"] = "wait"
    /\ pc["llhls"] = "start"
    /\ isRunning
    /\ mono - lastAccess > IdleTimeout

C26_NoStaleSegments ==
    [][/\ (up' /\ Len(cmds') = Len(cmds) + 1) => segs' = {}
       /\ (up' /\ isRunning') => segs' \subseteq {ffmpegCmd'}]_vars

\* the second transcoder has been launched after the first had written its
\* files: the playlist of the first is still there, its segments are not
C26_Witness ==
    /\ up
    /\ isRunning
    /\ ffmpegCmd = 2
    /\ cmds[2].state = "running"
    /\ playlist = 1
    /\ segs = {}

\* the entries of a viewer map that are at most ActivityWindow old
Kept(v, now) == {ip \in DOMAIN v : now - v[ip] <= ActivityWindow}

\* C27: a sweep leaves no entry older than ActivityWindow and removes none
\* that is within the window, in each profile's map by that map alone: what
\* the sweep makes of any registry the station gets into is that registry
\* cut down to the entries within the window, and a step that removes an
\* entry leaves exactly these, unaltered, in both maps.
C27_SweepPostcondition ==
    [][up' =>
          /\ sweep(viewersHLS', mono')
                = [ip \in Kept(viewersHLS', mono') |-> viewersHLS'[ip]]
          /\ sweep(viewersLLHLS', mono')
                = [ip \in Kept(viewersLLHLS', mono') |-> viewersLLHLS'[ip]]
          /\ (DOMAIN viewersHLS' # DOMAIN viewersHLS \cup DOMAIN viewersHLS'
                \/ DOMAIN viewersLLHLS' # DOMAIN viewersLLHLS \cup DOMAIN viewersLLHLS') =>
                /\ viewersHLS' = [ip \in Kept(viewersHLS, mono) |-> viewersHLS[ip]]
                /\ viewersLLHLS'
                      = [ip \in Kept(viewersLLHLS, mono) |-> viewersLLHLS[ip]]]_vars

\* at 61 the one profile's map is empty while the other still holds a client
\* seen at 1, exactly ActivityWindow ago
C27_Witness ==
    /\ up
    /\ mono = ActivityWindow + 1
    /\ viewersHLS = NoViewers
    /\ DOMAIN viewersLLHLS # {}
    /\ \A ip \in DOMAIN viewersLLHLS : viewersLLHLS[ip] = 1

\* C28: once the station is up, only pause, resume and seek change the
\* epoch: every other step of the serving process (start, stop, watchdog,
\* request, viewer recording, counting, sweeping) leaves the genesis, the
\* pause state and their persisted copies as they are.
C28_EpochFrame ==
    [][(up /\ up' /\ ~pause /\ ~resume /\ ~(\E x \in SeekTargets : seek(x))) =>
          UNCHANGED <<genesis, file, epoch, epochFile>>]_vars

\* a minute after the boot the transcoder runs for the second time, the
\* first having been stopped for idleness, /api/stats has been read, and the
\* genesis is the one written at the boot
C28_Witness ==
    /\ up
    /\ boots = 1
    /\ mono = MaxLockTime
    /\ isRunning
    /\ ffmpegCmd = 2
    /\ cmds[1].state = "exited"
    /\ stats.shown
    /\ genesis.set
    /\ wall - genesis.StartTime = MaxLockTime
    /\ file.start_time = genesis.StartTime

\* C29: the position calculation terminates for every duration that the
\* probe stores: a calculation that has entered its loop leaves it.
C29_CalcTerminates == (calc.at = "loop") ~> (calc.at = "done")

\* C30: when startFFmpeg stops waiting because stream.m3u8 is there, that
\* playlist was written by the process launched in this very start.
C30_PlaylistOfThisStart ==
    [][\A h \in Handlers :
          (pc[h] = "wait" /\ pc'[h] = "update" /\ ret'[h].path = "found") =>
              playlist = ffmpegCmd]_vars

\* C31: a stream request does not leave the transcoder stopped behind its
\* back: when a handler that saw isRunning true (and so called no
\* startFFmpeg) ends with its refresh of lastAccess, the transcoder counts
\* as running; no idle stop falls between its read and its refresh.
C31_RequestLeavesRunning ==
    [][\A h \in Handlers :
          (up' /\ pc[h] = "update" /\ ret[h] = NoRet /\ pc'[h] = "idle")
              => isRunning']_vars

\* C32: counting and sweeping agree at the window boundary: at any instant
\* every entry of a viewer map is either counted as active or would be
\* removed by a sweep at that instant, never both and never neither.
C32_CountedOrSwept ==
    up =>
       /\ \A ip \in DOMAIN viewersHLS :
             (ip \in getViewerStats(viewersHLS, mono))
                <=> ~(ip \notin DOMAIN sweep(viewersHLS, mono))
       /\ \A ip \in DOMAIN viewersLLHLS :
             (ip \in getViewerStats(viewersLLHLS, mono))
                <=> ~(ip \notin DOMAIN sweep(viewersLLHLS, mono))

\* C33: every launched process is waited on by the reaper goroutine of the
\* start that launched it, and by no other: no two goroutines are in the
\* Wait of one and the same launched process.
C33_ReapedByOwnReaper ==
    \A p \in DOMAIN cmds : cmds[p].state # "notstarted" => reapers[p] <= 1

====
